---- MODULE Spec2Model ----
(***************************************************************************)
(* SystemAudioMixer (Sources/SystemAudio/SystemAudioMixer.cpp): an engine  *)
(* that owns one AudioUnit matrix mixer, configures it, drives it with one *)
(* AudioUnitRender per mix call and hands the input buffers to the unit    *)
(* through a render callback that aliases data pointers.                   *)
(*                                                                         *)
(* The AudioToolbox calls are the environment.  Every call the engine      *)
(* makes is appended to `calls` with the handle it was given, whether that *)
(* handle named a live instance, and the status the call returned.  A call *)
(* may fail for a reason of its own (env.failAt names the failing call of  *)
(* the operation); a call given a handle that names no live instance has   *)
(* undefined behaviour and env.ub picks its outcome.                       *)
(***************************************************************************)
EXTENDS Integers, Sequences, FiniteSets, TLC

\* ------------------------------------------------------------------ bounds
MaxInst == 2        \* instances the hosting environment hands out
MaxChannels == 2    \* mChannelsPerFrame of a stream format is in 0..MaxChannels
MaxBuffers == 2     \* mNumberBuffers of a buffer list is in 0..MaxBuffers
MaxMixes == 2       \* successful mix calls kept in the history
MaxRefs == 3        \* references handed to one AutoCFType over its life

FrameCounts == {1, 2}
BufChannels == {1, 2}
BufByteSizes == {4, 8}

\* ------------------------------------------------------------ status codes
noErr == "noErr"
kAudio_ParamError == "kAudio_ParamError"
kAudioUnitErr_ExtensionNotFound == "kAudioUnitErr_ExtensionNotFound"
kAudioUnitErr_Uninitialized == "kAudioUnitErr_Uninitialized"
kAudioUnitErr_InvalidElement == "kAudioUnitErr_InvalidElement"
kAudioUnitErr_FormatNotSupported == "kAudioUnitErr_FormatNotSupported"
badComponentInstance == "badComponentInstance"
Crash == "crash"

\* statuses a call can fail with for a reason of its own
FaultCodes == {"kAudioUnitErr_CannotDoInCurrentContext", "kAudioUnitErr_FailedInitialization"}
\* outcomes of a call that is handed a handle naming no live instance
UBOutcomes == {badComponentInstance, noErr, Crash}

\* mixerUnit_ has no initializer: its value is indeterminate until
\* AudioComponentInstanceNew stores into it
Indeterminate == 0
InstIds == 1..MaxInst

\* ------------------------------------------------------------------- state
VARIABLES
    mixerUnit_,                 \* AudioUnit handle
    mixerInputChannels_,        \* UInt32
    mixerOutputChannels_,       \* UInt32
    sampleTime_,                \* Float64, holds whole frame counts
    renderCallbackInputABL_,    \* AudioBufferList *
    units,                      \* the hosting environment's instances
    crashed,                    \* the process died in a call with undefined behaviour
    last,                       \* the operation that ran last and what it did
    ready,                      \* the last lifecycle call was a successful initialize
    mixed,                      \* frame counts of the successful mix calls, in order
    inflight,                   \* per caller: how far its mix call has got
    ablReads,                   \* reads of renderCallbackInputABL_ so far
    cf                          \* one AutoCFType and the references it was given

vars == <<mixerUnit_, mixerInputChannels_, mixerOutputChannels_, sampleTime_,
          renderCallbackInputABL_, units, crashed, last, ready, mixed,
          inflight, ablReads, cf>>

\* the engine and its environment, without the calls in flight and the wrapper
engineVars == <<mixerUnit_, mixerInputChannels_, mixerOutputChannels_, sampleTime_,
                renderCallbackInputABL_, units, crashed, last, ready, mixed>>

\* a volume of the matrix mixer that nobody set yet: the unit's own default, 0
NoGain == [set |-> FALSE, value |-> 0]

\* a volume somebody set, in hundredths
Gain(value) == [set |-> TRUE, value |-> value]

RECURSIVE Fill(_, _)
Fill(n, x) == IF n = 0 THEN <<>> ELSE Append(Fill(n - 1, x), x)

\* an instance records what it was given: whether it is active (state), the
\* render callback (cb), the channel counts of its two stream formats, and its
\* volumes: the master volume, one per input channel, one per output channel
\* and one per crosspoint (cross[i + 1][j + 1] for input i and output j)
FreshUnit ==
    [state |-> "free", cb |-> FALSE, inCh |-> 0, outCh |-> 0,
     global |-> NoGain, input |-> <<>>, output |-> <<>>, cross |-> <<>>]

\* no instance created yet: one FreshUnit per id
RECURSIVE NoUnits(_)
NoUnits(n) == IF n = 0 THEN <<>> ELSE Append(NoUnits(n - 1), FreshUnit)

NoABL == [set |-> FALSE, abl |-> <<>>]

\* The engine and its environment as one value, threaded through the code.
\*   calls   what the running operation asked of AudioToolbox so far
\*   status  the value of the local `status`
\*   ioData  the caller's output buffer list (mix only)
\*   pulled  the buffer lists the render callback read its input from
Machine ==
    [mixerUnit_ |-> mixerUnit_,
     mixerInputChannels_ |-> mixerInputChannels_,
     mixerOutputChannels_ |-> mixerOutputChannels_,
     sampleTime_ |-> sampleTime_,
     renderCallbackInputABL_ |-> renderCallbackInputABL_,
     units |-> units,
     calls |-> <<>>,
     status |-> noErr,
     ioData |-> <<>>,
     pulled |-> <<>>]

\* --------------------------------------------------- hosting environment
Live(u, h) == h \in InstIds /\ u[h].state \in {"allocated", "initialized"}

FreeIds(u) == {i \in InstIds : u[i].state = "free"}

Min(S) == CHOOSE x \in S : \A y \in S : x <= y

CallRec(s, fn, what, scope, elem, value, st, injected) ==
    [fn |-> fn, unit |-> s.mixerUnit_, live |-> Live(s.units, s.mixerUnit_),
     what |-> what, scope |-> scope, elem |-> elem, value |-> value, ts |-> 0,
     status |-> st, injected |-> injected]

Logged(s, rec) == [s EXCEPT !.calls = Append(@, rec), !.status = rec.status]

\* how the next call of the running operation goes
Disposition(s, env) ==
    IF Len(s.calls) + 1 = env.failAt THEN "fault"
    ELSE IF ~Live(s.units, s.mixerUnit_) THEN "ub"
    ELSE "ok"

\* AudioComponentFindNext(nullptr, &mixerDesc): the matrix mixer component or null
AudioComponentFindNext(env) == env.found

\* AudioComponentInstanceNew(mixerComp, &mixerUnit_): takes no instance handle;
\* on success a fresh instance is stored into mixerUnit_
AudioComponentInstanceNew(s, env) ==
    IF Len(s.calls) + 1 = env.failAt
    THEN Logged(s, CallRec(s, "AudioComponentInstanceNew", "", "", 0, 0, env.err, TRUE))
    ELSE LET id == Min(FreeIds(s.units))
             t == [s EXCEPT !.mixerUnit_ = id,
                            !.units[id] = [FreshUnit EXCEPT !.state = "allocated"]]
         IN Logged(t, CallRec(t, "AudioComponentInstanceNew", "", "", 0, 0, noErr, FALSE))

\* AudioUnitSetProperty(mixerUnit_, what, scope, 0, &value, size).  A stream
\* format is represented by its mChannelsPerFrame; one of 0 channels is
\* malformed and is rejected.
AudioUnitSetProperty(s, what, scope, value, env) ==
    LET d == Disposition(s, env) IN
    IF d = "fault"
    THEN Logged(s, CallRec(s, "AudioUnitSetProperty", what, scope, 0, value, env.err, TRUE))
    ELSE IF d = "ub"
    THEN Logged(s, CallRec(s, "AudioUnitSetProperty", what, scope, 0, value, env.ub, FALSE))
    ELSE IF what = "kAudioUnitProperty_StreamFormat" /\ value = 0
    THEN Logged(s, CallRec(s, "AudioUnitSetProperty", what, scope, 0, value,
                           kAudioUnitErr_FormatNotSupported, FALSE))
    ELSE LET u == s.units[s.mixerUnit_]
             t == IF what = "kAudioUnitProperty_SetRenderCallback"
                  THEN [s EXCEPT !.units[s.mixerUnit_].cb = TRUE]
                  ELSE IF what = "kAudioUnitProperty_StreamFormat"
                          /\ scope = "kAudioUnitScope_Input"
                  THEN [s EXCEPT !.units[s.mixerUnit_] =
                                    [u EXCEPT !.inCh = value,
                                              !.input = Fill(value, NoGain),
                                              !.cross = Fill(value, Fill(u.outCh, NoGain))]]
                  ELSE IF what = "kAudioUnitProperty_StreamFormat"
                          /\ scope = "kAudioUnitScope_Output"
                  THEN [s EXCEPT !.units[s.mixerUnit_] =
                                    [u EXCEPT !.outCh = value,
                                              !.output = Fill(value, NoGain),
                                              !.cross = Fill(u.inCh, Fill(value, NoGain))]]
                  ELSE s
         IN Logged(t, CallRec(s, "AudioUnitSetProperty", what, scope, 0, value, noErr, FALSE))

\* AudioUnitInitialize(mixerUnit_)
AudioUnitInitialize(s, env) ==
    LET d == Disposition(s, env) IN
    IF d = "fault"
    THEN Logged(s, CallRec(s, "AudioUnitInitialize", "", "", 0, 0, env.err, TRUE))
    ELSE IF d = "ub"
    THEN Logged(s, CallRec(s, "AudioUnitInitialize", "", "", 0, 0, env.ub, FALSE))
    ELSE Logged([s EXCEPT !.units[s.mixerUnit_].state = "initialized"],
                CallRec(s, "AudioUnitInitialize", "", "", 0, 0, noErr, FALSE))

\* element 0xFFFFFFFF, as the 32-bit pattern read as a signed int
AllElements == -1

\* the crosspoint a Global-scope element names: input channel in the high 16
\* bits, output channel in the low 16 bits of the 32-bit pattern
ElementInput(elem) == (elem \div 65536) % 65536

ElementOutput(elem) == elem % 65536

\* the instance u after volume `value` was stored for elem of scope, or u
\* itself when it has no such element
StoreVolume(u, scope, elem, value) ==
    IF scope = "kAudioUnitScope_Global"
    THEN IF elem = AllElements
         THEN [u EXCEPT !.global = Gain(value)]
         ELSE IF ElementInput(elem) < u.inCh /\ ElementOutput(elem) < u.outCh
         THEN [u EXCEPT !.cross[ElementInput(elem) + 1][ElementOutput(elem) + 1] = Gain(value)]
         ELSE u
    ELSE IF scope = "kAudioUnitScope_Input"
    THEN IF 0 <= elem /\ elem < u.inCh THEN [u EXCEPT !.input[elem + 1] = Gain(value)] ELSE u
    ELSE IF 0 <= elem /\ elem < u.outCh THEN [u EXCEPT !.output[elem + 1] = Gain(value)] ELSE u

HasElement(u, scope, elem) ==
    IF scope = "kAudioUnitScope_Global"
    THEN elem = AllElements
         \/ (ElementInput(elem) < u.inCh /\ ElementOutput(elem) < u.outCh)
    ELSE IF scope = "kAudioUnitScope_Input"
    THEN 0 <= elem /\ elem < u.inCh
    ELSE 0 <= elem /\ elem < u.outCh

\* AudioUnitSetParameter(mixerUnit_, kMatrixMixerParam_Volume, scope, elem, value, 0);
\* gains are in hundredths (100 is 1.0).  The volume is stored for the element
\* the call names; an element the instance does not have is refused.
AudioUnitSetParameter(s, scope, elem, value, env) ==
    LET d == Disposition(s, env) IN
    IF d = "fault"
    THEN Logged(s, CallRec(s, "AudioUnitSetParameter", "kMatrixMixerParam_Volume",
                           scope, elem, value, env.err, TRUE))
    ELSE IF d = "ub"
    THEN Logged(s, CallRec(s, "AudioUnitSetParameter", "kMatrixMixerParam_Volume",
                           scope, elem, value, env.ub, FALSE))
    ELSE IF ~HasElement(s.units[s.mixerUnit_], scope, elem)
    THEN Logged(s, CallRec(s, "AudioUnitSetParameter", "kMatrixMixerParam_Volume",
                           scope, elem, value, kAudioUnitErr_InvalidElement, FALSE))
    ELSE Logged([s EXCEPT !.units[s.mixerUnit_] = StoreVolume(@, scope, elem, value)],
                CallRec(s, "AudioUnitSetParameter", "kMatrixMixerParam_Volume",
                        scope, elem, value, noErr, FALSE))

\* AudioUnitUninitialize(mixerUnit_): deactivates; a no-op on an instance that
\* is not active
AudioUnitUninitialize(s, env) ==
    LET d == Disposition(s, env) IN
    IF d = "fault"
    THEN Logged(s, CallRec(s, "AudioUnitUninitialize", "", "", 0, 0, env.err, TRUE))
    ELSE IF d = "ub"
    THEN Logged(s, CallRec(s, "AudioUnitUninitialize", "", "", 0, 0, env.ub, FALSE))
    ELSE Logged([s EXCEPT !.units[s.mixerUnit_].state = "allocated"],
                CallRec(s, "AudioUnitUninitialize", "", "", 0, 0, noErr, FALSE))

\* AudioComponentInstanceDispose(mixerUnit_): the instance is gone afterwards
AudioComponentInstanceDispose(s, env) ==
    LET d == Disposition(s, env) IN
    IF d = "fault"
    THEN Logged(s, CallRec(s, "AudioComponentInstanceDispose", "", "", 0, 0, env.err, TRUE))
    ELSE IF d = "ub"
    THEN Logged(s, CallRec(s, "AudioComponentInstanceDispose", "", "", 0, 0, env.ub, FALSE))
    ELSE Logged([s EXCEPT !.units[s.mixerUnit_] = [FreshUnit EXCEPT !.state = "disposed"]],
                CallRec(s, "AudioComponentInstanceDispose", "", "", 0, 0, noErr, FALSE))

\* ------------------------------------------------------------- the engine
\* SystemAudioMixer::SystemAudioMixer() : sampleTime_(0)
Constructed ==
    /\ sampleTime_ = 0
    /\ mixerUnit_ = Indeterminate
    /\ mixerInputChannels_ = Indeterminate
    /\ mixerOutputChannels_ = Indeterminate
    /\ renderCallbackInputABL_ = NoABL

\* configureMixer that disposes the instance when a bus count is refused
configureMixer_disposesOnFailure(s, env) ==
    LET s1 == AudioUnitSetProperty(s, "kAudioUnitProperty_BusCount", "kAudioUnitScope_Input",
                                   1, env)
    IN
    IF noErr # s1.status
    THEN [AudioComponentInstanceDispose(s1, env) EXCEPT !.status = s1.status] ELSE
    LET s2 == AudioUnitSetProperty(s1, "kAudioUnitProperty_BusCount", "kAudioUnitScope_Output",
                                   1, env)
    IN
    IF noErr # s2.status
    THEN [AudioComponentInstanceDispose(s2, env) EXCEPT !.status = s2.status] ELSE
    [s2 EXCEPT !.status = noErr]

configureMixer(s, env) ==
    LET inputBusses == 1
        s1 == AudioUnitSetProperty(s, "kAudioUnitProperty_BusCount", "kAudioUnitScope_Input",
                                   inputBusses, env)
    IN
    IF noErr # s1.status THEN s1 ELSE
    LET outputBusses == 1
        s2 == AudioUnitSetProperty(s1, "kAudioUnitProperty_BusCount", "kAudioUnitScope_Output",
                                   outputBusses, env)
    IN
    IF noErr # s2.status THEN s2 ELSE
    [s2 EXCEPT !.status = noErr]

\* configureStreamFormats that sets the output format before the input format
configureStreamFormats_outputFirst(s, inputASBD, outputASBD, env) ==
    LET s1 == AudioUnitSetProperty(s, "kAudioUnitProperty_StreamFormat", "kAudioUnitScope_Output",
                                   outputASBD, env)
    IN
    IF noErr # s1.status THEN s1 ELSE
    LET s2 == [s1 EXCEPT !.mixerOutputChannels_ = outputASBD]
        s3 == AudioUnitSetProperty(s2, "kAudioUnitProperty_StreamFormat", "kAudioUnitScope_Input",
                                   inputASBD, env)
    IN
    IF noErr # s3.status THEN s3 ELSE
    LET s4 == [s3 EXCEPT !.mixerInputChannels_ = inputASBD] IN
    [s4 EXCEPT !.status = noErr]

configureStreamFormats(s, inputASBD, outputASBD, env) ==
    LET s1 == AudioUnitSetProperty(s, "kAudioUnitProperty_StreamFormat", "kAudioUnitScope_Input",
                                   inputASBD, env)
    IN
    IF noErr # s1.status THEN s1 ELSE
    LET s2 == [s1 EXCEPT !.mixerInputChannels_ = inputASBD]
        s3 == AudioUnitSetProperty(s2, "kAudioUnitProperty_StreamFormat", "kAudioUnitScope_Output",
                                   outputASBD, env)
    IN
    IF noErr # s3.status THEN s3 ELSE
    LET s4 == [s3 EXCEPT !.mixerOutputChannels_ = outputASBD] IN
    [s4 EXCEPT !.status = noErr]

\* setVolumes that sets every channel volume to 0.5
RECURSIVE setVolumes_halfGain(_, _, _, _, _)
setVolumes_halfGain(s, scope, i, n, env) ==
    IF ~(i < n) THEN s ELSE
    LET s1 == AudioUnitSetParameter(s, scope, i, 50, env) IN
    IF noErr # s1.status THEN s1 ELSE
    setVolumes_halfGain(s1, scope, i + 1, n, env)

\* setVolumes that does not look at the status inside the loop
RECURSIVE setVolumes_ignoresFailure(_, _, _, _, _)
setVolumes_ignoresFailure(s, scope, i, n, env) ==
    IF ~(i < n) THEN s ELSE
    setVolumes_ignoresFailure(AudioUnitSetParameter(s, scope, i, 100, env), scope, i + 1, n, env)

\* for (UInt32 i = 0; i < n; i++) { status = AudioUnitSetParameter(.., scope, i, 1.0, 0);
\*                                  if (noErr != status) return status; }
RECURSIVE setVolumes(_, _, _, _, _)
setVolumes(s, scope, i, n, env) ==
    IF ~(i < n) THEN s ELSE
    LET s1 == AudioUnitSetParameter(s, scope, i, 100, env) IN
    IF noErr # s1.status THEN s1 ELSE
    setVolumes(s1, scope, i + 1, n, env)

\* initialize that goes on without a mixer component
initialize_ignoresMissingComponent(s, inputASBD, outputASBD, env) ==
    LET s1 == AudioComponentInstanceNew(s, env) IN
    IF noErr # s1.status THEN s1 ELSE
    LET s2 == configureMixer(s1, env) IN
    IF noErr # s2.status THEN s2 ELSE
    LET s3 == configureStreamFormats(s2, inputASBD, outputASBD, env) IN
    IF noErr # s3.status THEN s3 ELSE
    LET s4 == AudioUnitSetProperty(s3, "kAudioUnitProperty_ShouldAllocateBuffer",
                                   "kAudioUnitScope_Input", 0, env)
    IN
    IF noErr # s4.status THEN s4 ELSE
    LET s5 == AudioUnitSetProperty(s4, "kAudioUnitProperty_SetRenderCallback",
                                   "kAudioUnitScope_Global", 1, env)
    IN
    IF noErr # s5.status THEN s5 ELSE
    LET s6 == AudioUnitInitialize(s5, env) IN
    IF noErr # s6.status THEN s6 ELSE
    LET s7 == AudioUnitSetParameter(s6, "kAudioUnitScope_Global", AllElements, 100, env) IN
    IF noErr # s7.status THEN s7 ELSE
    LET s8 == setVolumes(s7, "kAudioUnitScope_Input", 0, s7.mixerInputChannels_, env) IN
    IF noErr # s8.status THEN s8 ELSE
    LET s9 == setVolumes(s8, "kAudioUnitScope_Output", 0, s8.mixerOutputChannels_, env) IN
    IF noErr # s9.status THEN s9 ELSE
    [s9 EXCEPT !.status = noErr]

initialize(s, inputASBD, outputASBD, env) ==
    LET mixerComp == AudioComponentFindNext(env) IN
    IF ~mixerComp THEN [s EXCEPT !.status = kAudioUnitErr_ExtensionNotFound] ELSE
    LET s1 == AudioComponentInstanceNew(s, env) IN
    IF noErr # s1.status THEN s1 ELSE
    LET s2 == configureMixer(s1, env) IN
    IF noErr # s2.status THEN s2 ELSE
    LET s3 == configureStreamFormats(s2, inputASBD, outputASBD, env) IN
    IF noErr # s3.status THEN s3 ELSE
    LET shouldAllocateBuffer == 0
        s4 == AudioUnitSetProperty(s3, "kAudioUnitProperty_ShouldAllocateBuffer",
                                   "kAudioUnitScope_Input", shouldAllocateBuffer, env)
    IN
    IF noErr # s4.status THEN s4 ELSE
    LET s5 == AudioUnitSetProperty(s4, "kAudioUnitProperty_SetRenderCallback",
                                   "kAudioUnitScope_Global", 1, env)
    IN
    IF noErr # s5.status THEN s5 ELSE
    LET s6 == AudioUnitInitialize(s5, env) IN
    IF noErr # s6.status THEN s6 ELSE
    LET s7 == AudioUnitSetParameter(s6, "kAudioUnitScope_Global", AllElements, 100, env) IN
    IF noErr # s7.status THEN s7 ELSE
    LET s8 == setVolumes(s7, "kAudioUnitScope_Input", 0, s7.mixerInputChannels_, env) IN
    IF noErr # s8.status THEN s8 ELSE
    LET s9 == setVolumes(s8, "kAudioUnitScope_Output", 0, s8.mixerOutputChannels_, env) IN
    IF noErr # s9.status THEN s9 ELSE
    [s9 EXCEPT !.status = noErr]

\* uninitialize that deactivates and forgets to dispose
uninitialize_skipsDispose(s, env) ==
    LET s1 == AudioUnitUninitialize(s, env) IN
    IF noErr # s1.status THEN s1 ELSE
    [s1 EXCEPT !.status = noErr]

\* uninitialize that disposes before it deactivates
uninitialize_disposesFirst(s, env) ==
    LET s1 == AudioComponentInstanceDispose(s, env) IN
    IF noErr # s1.status THEN s1 ELSE
    LET s2 == AudioUnitUninitialize(s1, env) IN
    IF noErr # s2.status THEN s2 ELSE
    [s2 EXCEPT !.status = noErr]

\* uninitialize that starts the sample clock again from zero
uninitialize_resetsClock(s, env) ==
    LET s1 == AudioUnitUninitialize(s, env) IN
    IF noErr # s1.status THEN s1 ELSE
    LET s2 == AudioComponentInstanceDispose(s1, env) IN
    IF noErr # s2.status THEN s2 ELSE
    [s2 EXCEPT !.status = noErr, !.sampleTime_ = 0]

\* uninitialize that forgets the handle once the instance is disposed
uninitialize_clearsHandle(s, env) ==
    LET s1 == AudioUnitUninitialize(s, env) IN
    IF noErr # s1.status THEN s1 ELSE
    LET s2 == AudioComponentInstanceDispose(s1, env) IN
    IF noErr # s2.status THEN s2 ELSE
    [s2 EXCEPT !.status = noErr, !.mixerUnit_ = Indeterminate]

uninitialize(s, env) ==
    LET s1 == AudioUnitUninitialize(s, env) IN
    IF noErr # s1.status THEN s1 ELSE
    LET s2 == AudioComponentInstanceDispose(s1, env) IN
    IF noErr # s2.status THEN s2 ELSE
    [s2 EXCEPT !.status = noErr]

\* ------------------------------------------------------- 32-bit int helpers
RECURSIVE AndNat(_, _)
AndNat(a, b) ==
    IF a = 0 \/ b = 0 THEN 0
    ELSE (IF a % 2 = 1 /\ b % 2 = 1 THEN 1 ELSE 0) + 2 * AndNat(a \div 2, b \div 2)

Not32(x) == -1 - x

\* a | b on 32-bit two's complement ints
BitOr(a, b) ==
    IF a >= 0 /\ b >= 0 THEN a + b - AndNat(a, b)
    ELSE IF a < 0 /\ b < 0 THEN Not32(AndNat(Not32(a), Not32(b)))
    ELSE IF a < 0 THEN Not32(Not32(a) - AndNat(Not32(a), b))
    ELSE Not32(Not32(b) - AndNat(Not32(b), a))

\* x << 16 on a 32-bit int: the low 16 bits move up, bit 15 becomes the sign
Shl16(x) ==
    ((x % 32768) * 65536) + (IF (x \div 32768) % 2 = 1 THEN -2147483647 - 1 ELSE 0)

\* ------------------------------------------------------------ buffer lists
\* an AudioBuffer is [mNumberChannels, mDataByteSize, mData]; an AudioBufferList
\* is the sequence of its mBuffers (mNumberBuffers is its length)

\* renderLoop with the loop bound one short: the last buffer is never aliased
RECURSIVE renderLoop_stopsEarly(_, _, _)
renderLoop_stopsEarly(s, inABL, i) ==
    IF ~(i < Len(s.ioData)) THEN [s EXCEPT !.status = noErr] ELSE
    LET inBuffer == inABL[i]
        outBuffer == s.ioData[i]
    IN
    IF ~(inBuffer.mNumberChannels = outBuffer.mNumberChannels /\
         inBuffer.mDataByteSize = outBuffer.mDataByteSize)
    THEN [s EXCEPT !.status = kAudio_ParamError]
    ELSE renderLoop_stopsEarly([s EXCEPT !.ioData[i].mData = inBuffer.mData], inABL, i + 1)

\* renderLoop that notes a mismatch and goes on to the next buffer
RECURSIVE renderLoop_continuesPastMismatch(_, _, _, _)
renderLoop_continuesPastMismatch(s, inABL, i, st) ==
    IF ~(i <= Len(s.ioData)) THEN [s EXCEPT !.status = st] ELSE
    LET inBuffer == inABL[i]
        outBuffer == s.ioData[i]
    IN
    IF ~(inBuffer.mNumberChannels = outBuffer.mNumberChannels /\
         inBuffer.mDataByteSize = outBuffer.mDataByteSize)
    THEN renderLoop_continuesPastMismatch(s, inABL, i + 1, kAudio_ParamError)
    ELSE renderLoop_continuesPastMismatch([s EXCEPT !.ioData[i].mData = inBuffer.mData],
                                          inABL, i + 1, st)

renderLoop_afterMismatch(s, inABL, i) == renderLoop_continuesPastMismatch(s, inABL, i, noErr)

\* for (i = 0; i < ioData->mNumberBuffers; i++) { ... outBuffer.mData = inBuffer.mData; }
\* (i counts from 1 here)
RECURSIVE renderLoop(_, _, _)
renderLoop(s, inABL, i) ==
    IF ~(i <= Len(s.ioData)) THEN [s EXCEPT !.status = noErr] ELSE
    LET inBuffer == inABL[i]
        outBuffer == s.ioData[i]
    IN
    IF ~(inBuffer.mNumberChannels = outBuffer.mNumberChannels /\
         inBuffer.mDataByteSize = outBuffer.mDataByteSize)
    THEN [s EXCEPT !.status = kAudio_ParamError]
    ELSE renderLoop([s EXCEPT !.ioData[i].mData = inBuffer.mData], inABL, i + 1)

\* renderCallback that lets a buffer count mismatch pass
renderCallback_acceptsCountMismatch(s, inNumberFrames) ==
    LET inABL == s.renderCallbackInputABL_.abl
        s1 == [s EXCEPT !.pulled = Append(@, inABL)]
    IN
    IF Len(inABL) # Len(s1.ioData) THEN [s1 EXCEPT !.status = noErr] ELSE
    renderLoop(s1, inABL, 1)

\* SystemAudioMixer::renderCallback(inRefCon = this, .., inNumberFrames, ioData)
renderCallback(s, inNumberFrames) ==
    LET inABL == s.renderCallbackInputABL_.abl
        s1 == [s EXCEPT !.pulled = Append(@, inABL)]
    IN
    IF Len(inABL) # Len(s1.ioData) THEN [s1 EXCEPT !.status = kAudio_ParamError] ELSE
    renderLoop(s1, inABL, 1)

\* AudioUnitRender(mixerUnit_, nullptr, &ts, 0, inNumberFrames, outputABL): an
\* active instance pulls its input through the installed callback, handing it
\* the caller's buffer list, and returns the callback's status when that is not
\* noErr; env.late makes the render step fail after a successful pull.
AudioUnitRender(s, ts, inNumberFrames, env) ==
    LET d == Disposition(s, env)
        rec(st, inj) == [CallRec(s, "AudioUnitRender", "", "", 0, inNumberFrames, st, inj)
                            EXCEPT !.ts = ts]
    IN
    IF d = "fault" THEN Logged(s, rec(env.err, TRUE))
    ELSE IF d = "ub" THEN Logged(s, rec(env.ub, FALSE))
    ELSE IF s.units[s.mixerUnit_].state # "initialized"
    THEN Logged(s, rec(kAudioUnitErr_Uninitialized, FALSE))
    ELSE IF ~s.units[s.mixerUnit_].cb
    THEN Logged(s, rec(noErr, FALSE))
    ELSE LET t == renderCallback(s, inNumberFrames) IN
         IF noErr # t.status THEN Logged(t, rec(t.status, FALSE))
         ELSE IF env.late THEN Logged(t, rec(env.err, TRUE))
         ELSE Logged(t, rec(noErr, FALSE))

\* setCrossoverVolume that packs the output channel into the high half
setCrossoverVolume_swapsIndexes(s, inputChannelIndex, outputChannelIndex, volume, env) ==
    LET s1 == AudioUnitSetParameter(s, "kAudioUnitScope_Global",
                                    BitOr(Shl16(outputChannelIndex), inputChannelIndex),
                                    volume, env)
    IN
    IF noErr # s1.status THEN s1 ELSE
    [s1 EXCEPT !.status = noErr]

setCrossoverVolume(s, inputChannelIndex, outputChannelIndex, volume, env) ==
    LET s1 == AudioUnitSetParameter(s, "kAudioUnitScope_Global",
                                    BitOr(Shl16(inputChannelIndex), outputChannelIndex),
                                    volume, env)
    IN
    IF noErr # s1.status THEN s1 ELSE
    [s1 EXCEPT !.status = noErr]

\* mix that advances the clock whatever the render step returned
mix_advancesAlways(s, inNumberFrames, inputABL, outputABL, env) ==
    LET ts == s.sampleTime_
        s1 == [s EXCEPT !.renderCallbackInputABL_ = [set |-> TRUE, abl |-> inputABL],
                        !.ioData = outputABL]
        s2 == AudioUnitRender(s1, ts, inNumberFrames, env)
    IN
    [s2 EXCEPT !.sampleTime_ = @ + inNumberFrames]

\* mix that ends in `return noErr` like the other operations
mix_returnsNoErr(s, inNumberFrames, inputABL, outputABL, env) ==
    LET ts == s.sampleTime_
        s1 == [s EXCEPT !.renderCallbackInputABL_ = [set |-> TRUE, abl |-> inputABL],
                        !.ioData = outputABL]
        s2 == AudioUnitRender(s1, ts, inNumberFrames, env)
    IN
    IF noErr = s2.status
    THEN [s2 EXCEPT !.sampleTime_ = @ + inNumberFrames]
    ELSE [s2 EXCEPT !.status = noErr]

\* mix that stamps every render request with the clock's initial value
mix_stampsZero(s, inNumberFrames, inputABL, outputABL, env) ==
    LET ts == 0
        s1 == [s EXCEPT !.renderCallbackInputABL_ = [set |-> TRUE, abl |-> inputABL],
                        !.ioData = outputABL]
        s2 == AudioUnitRender(s1, ts, inNumberFrames, env)
    IN
    IF noErr = s2.status
    THEN [s2 EXCEPT !.sampleTime_ = @ + inNumberFrames]
    ELSE s2

mix(s, inNumberFrames, inputABL, outputABL, env) ==
    LET ts == s.sampleTime_
        s1 == [s EXCEPT !.renderCallbackInputABL_ = [set |-> TRUE, abl |-> inputABL],
                        !.ioData = outputABL]
        s2 == AudioUnitRender(s1, ts, inNumberFrames, env)
    IN
    IF noErr = s2.status
    THEN [s2 EXCEPT !.sampleTime_ = @ + inNumberFrames]
    ELSE s2

\* ------------------------------------------------------------- AutoCFType
\* SystemAudioUtilities.hpp: AutoCFType<T> keeps one CFTypeRef in type_.  The
\* platform objects are CFObjects; released[o] counts the CFRelease calls the
\* wrapper made on o.
nullptr == 0
CFObjects == {1, 2}

\* CFTypeRef type_ = nullptr;
Wrapper ==
    [type_ |-> nullptr, released |-> <<0, 0>>, result |-> nullptr,
     alive |-> TRUE, given |-> <<0, 0>>, handed |-> <<0, 0>>, op |-> "construct", arg |-> nullptr]

CFRelease(w, o) == [w EXCEPT !.released[o] = @ + 1]

\* reset that overwrites type_ without releasing what it held
AutoCFType_reset_keepsPrevious(w, type) ==
    [w EXCEPT !.type_ = type]

AutoCFType_reset(w, type) ==
    LET w1 == IF w.type_ # nullptr THEN CFRelease(w, w.type_) ELSE w IN
    [w1 EXCEPT !.type_ = type]

AutoCFType_release(w) ==
    LET result == w.type_ IN
    [w EXCEPT !.type_ = nullptr, !.result = result]

AutoCFType_get(w) == [w EXCEPT !.result = w.type_]

\* ~AutoCFType()
AutoCFType_destructor(w) ==
    IF w.type_ # nullptr THEN CFRelease(w, w.type_) ELSE w

\* ----------------------------------------------------------------- actions
\* the most AudioToolbox calls one initialize makes
InitCalls == 9 + 2 * MaxChannels

\* the environment of one operation: every call goes as its handle allows ...
Nominal(ub) == [found |-> TRUE, failAt |-> 0, err |-> noErr, ub |-> ub, late |-> FALSE]
\* ... or the failAt-th call fails with err for a reason of its own ...
Faulty(failAts, codes) ==
    {[Nominal(badComponentInstance) EXCEPT !.failAt = k, !.err = e] :
        k \in failAts, e \in codes}
\* ... or the render step fails with err after it pulled its input ...
Late(codes) == {[Nominal(badComponentInstance) EXCEPT !.late = TRUE, !.err = e] : e \in codes}
\* ... or no mixer component is installed
NotFound == [Nominal(badComponentInstance) EXCEPT !.found = FALSE]

\* the outcomes open to a call on mixerUnit_: undefined when it names no instance
Outcomes == IF Live(units, mixerUnit_) THEN {badComponentInstance} ELSE UBOutcomes

\* data pointers of the caller's buffers: input buffer i, output buffer i
InData(i) == 100 + i
OutData(i) == 200 + i

Shapes == BufChannels \X BufByteSizes

\* the list of k buffers whose buffer i has shape sh[i] and data pointer base + i
RECURSIVE BufferList(_, _, _)
BufferList(sh, k, base) ==
    IF k = 0 THEN <<>>
    ELSE Append(BufferList(sh, k - 1, base),
                [mNumberChannels |-> sh[k][1], mDataByteSize |-> sh[k][2], mData |-> base + k])

\* the buffer lists of up to n buffers
BufferLists(n, shapes, base) ==
    UNION {{BufferList(sh, k, base) : sh \in [1..k -> shapes]} : k \in 0..n}

\* a caller that is not inside mix
NotCalled ==
    [pc |-> "out", inNumberFrames |-> 0, inputABL |-> <<>>, outputABL |-> <<>>,
     ts |-> 0, status |-> noErr, ioData |-> <<>>, pulled |-> <<>>, clock |-> 0, began |-> 0]

NoCall ==
    [op |-> "construct", status |-> noErr, calls |-> <<>>, found |-> TRUE,
     inputASBD |-> 0, outputASBD |-> 0, frames |-> 0,
     inputABL |-> <<>>, outputABL |-> <<>>, ioData |-> <<>>, pulled |-> <<>>,
     clockBefore |-> 0, readyBefore |-> FALSE, prevOp |-> "", prevStatus |-> noErr,
     inputChannelIndex |-> 0, outputChannelIndex |-> 0, volume |-> 0]

\* what an operation that ended in machine r leaves behind (prevOp and
\* prevStatus: the initialize a teardown followed immediately)
Ran(op, r) ==
    [NoCall EXCEPT !.op = op, !.status = r.status, !.calls = r.calls,
                   !.ioData = r.ioData, !.pulled = r.pulled,
                   !.clockBefore = sampleTime_,
                   !.readyBefore = ready]

Becomes(r) ==
    /\ mixerUnit_' = r.mixerUnit_
    /\ mixerInputChannels_' = r.mixerInputChannels_
    /\ mixerOutputChannels_' = r.mixerOutputChannels_
    /\ sampleTime_' = r.sampleTime_
    /\ renderCallbackInputABL_' = r.renderCallbackInputABL_
    /\ units' = r.units
    /\ crashed' = (r.status = Crash)
    /\ UNCHANGED <<inflight, ablReads, cf>>

Init ==
    /\ Constructed
    /\ units = NoUnits(MaxInst)
    /\ crashed = FALSE
    /\ last = NoCall
    /\ ready = FALSE
    /\ mixed = <<>>
    /\ inflight = <<NotCalled, NotCalled>>
    /\ ablReads = 0
    /\ cf = Wrapper

\* initialize(inputASBD, outputASBD) with formats of the given channel counts
Initialize(channels, faults) ==
    /\ ~crashed
    /\ FreeIds(units) # {}
    /\ \E inputASBD \in channels, outputASBD \in channels,
          env \in {Nominal(badComponentInstance), NotFound} \cup faults :
         LET r == initialize(Machine, inputASBD, outputASBD, env) IN
         /\ Becomes(r)
         /\ last' = [Ran("initialize", r) EXCEPT !.inputASBD = inputASBD,
                                                 !.outputASBD = outputASBD,
                                                 !.found = env.found]
         /\ ready' = (r.status = noErr)
         /\ mixed' = mixed

Uninitialize(faults) ==
    /\ ~crashed
    /\ \E env \in {Nominal(ub) : ub \in Outcomes} \cup faults :
         LET r == uninitialize(Machine, env) IN
         /\ Becomes(r)
         /\ last' = IF last.op = "initialize"
                    THEN [Ran("uninitialize", r) EXCEPT !.prevOp = last.op,
                                                        !.prevStatus = last.status]
                    ELSE Ran("uninitialize", r)
         /\ ready' = FALSE
         /\ mixed' = mixed

SetCrossoverVolume(inputs, outputs, volumes, faults) ==
    /\ ~crashed
    /\ \E i \in inputs, j \in outputs, volume \in volumes,
          env \in {Nominal(ub) : ub \in Outcomes} \cup faults :
         LET r == setCrossoverVolume(Machine, i, j, volume, env) IN
         /\ Becomes(r)
         /\ last' = [Ran("setCrossoverVolume", r) EXCEPT !.inputChannelIndex = i,
                                                         !.outputChannelIndex = j,
                                                         !.volume = volume]
         /\ UNCHANGED <<ready, mixed>>

\* mix(inNumberFrames, inputABL, outputABL)
Mix(inputLists, outputLists, faults) ==
    /\ ~crashed
    /\ Len(mixed) < MaxMixes
    /\ \E inNumberFrames \in FrameCounts, inputABL \in inputLists, outputABL \in outputLists,
          env \in {Nominal(ub) : ub \in Outcomes} \cup faults :
         LET r == mix(Machine, inNumberFrames, inputABL, outputABL, env) IN
         /\ Becomes(r)
         /\ last' = [Ran("mix", r) EXCEPT !.frames = inNumberFrames,
                                          !.inputABL = inputABL,
                                          !.outputABL = outputABL]
         /\ mixed' = IF r.status = noErr THEN Append(mixed, inNumberFrames) ELSE mixed
         /\ UNCHANGED ready

\* mix(inNumberFrames, inputABL, outputABL) by caller t, one shared access at a
\* time.  MixEnter: the call begins and copies sampleTime_ into the timestamp.
Callers == {1, 2}

MixEnter(t, inputLists, outputLists) ==
    /\ ~crashed
    /\ ready
    /\ inflight[t].pc \in {"out", "returned"}
    /\ inflight[1].began + inflight[2].began < MaxMixes
    /\ \E inNumberFrames \in FrameCounts, inputABL \in inputLists, outputABL \in outputLists :
         inflight' = [inflight EXCEPT ![t] =
                        [NotCalled EXCEPT !.pc = "stamped",
                                          !.inNumberFrames = inNumberFrames,
                                          !.inputABL = inputABL,
                                          !.outputABL = outputABL,
                                          !.ts = sampleTime_,
                                          !.began = inflight[t].began + 1]]
    /\ UNCHANGED <<engineVars, ablReads, cf>>

\* MixStore that leaves renderCallbackInputABL_ as it was
MixStore_keepsOld(t) ==
    /\ inflight[t].pc = "stamped"
    /\ inflight' = [inflight EXCEPT ![t].pc = "stored"]
    /\ UNCHANGED <<engineVars, ablReads, cf>>

\* renderCallbackInputABL_ = inputABL;
MixStore(t) ==
    /\ inflight[t].pc = "stamped"
    /\ renderCallbackInputABL_' = [set |-> TRUE, abl |-> inflight[t].inputABL]
    /\ inflight' = [inflight EXCEPT ![t].pc = "stored"]
    /\ UNCHANGED <<mixerUnit_, mixerInputChannels_, mixerOutputChannels_, sampleTime_,
                   units, crashed, last, ready, mixed, ablReads, cf>>

\* AudioUnitRender(mixerUnit_, ..., &ts, 0, inNumberFrames, outputABL), and inside
\* it renderCallback, which reads renderCallbackInputABL_ as it is now
MixRender(t, faults) ==
    /\ inflight[t].pc = "stored"
    /\ \E env \in {Nominal(badComponentInstance)} \cup faults :
         LET r == AudioUnitRender([Machine EXCEPT !.ioData = inflight[t].outputABL],
                                  inflight[t].ts, inflight[t].inNumberFrames, env)
         IN /\ inflight' = [inflight EXCEPT ![t].pc = "rendered",
                                            ![t].status = r.status,
                                            ![t].ioData = r.ioData,
                                            ![t].pulled = r.pulled]
            /\ ablReads' = ablReads + Len(r.pulled)
    /\ UNCHANGED <<engineVars, cf>>

\* if (status == noErr) sampleTime_ += inNumberFrames: the read of sampleTime_,
\* or the return of a failed call
MixReadClock(t) ==
    /\ inflight[t].pc = "rendered"
    /\ inflight' = IF noErr = inflight[t].status
                   THEN [inflight EXCEPT ![t].pc = "adding", ![t].clock = sampleTime_]
                   ELSE [inflight EXCEPT ![t].pc = "returned"]
    /\ UNCHANGED <<engineVars, ablReads, cf>>

\* MixWriteClock that adds the frames twice
MixWriteClock_addsTwice(t) ==
    /\ inflight[t].pc = "adding"
    /\ sampleTime_' = inflight[t].clock + 2 * inflight[t].inNumberFrames
    /\ mixed' = Append(mixed, inflight[t].inNumberFrames)
    /\ inflight' = [inflight EXCEPT ![t].pc = "returned"]
    /\ UNCHANGED <<mixerUnit_, mixerInputChannels_, mixerOutputChannels_,
                   renderCallbackInputABL_, units, crashed, last, ready, ablReads, cf>>

\* sampleTime_ += inNumberFrames: the write, and the return
MixWriteClock(t) ==
    /\ inflight[t].pc = "adding"
    /\ sampleTime_' = inflight[t].clock + inflight[t].inNumberFrames
    /\ mixed' = Append(mixed, inflight[t].inNumberFrames)
    /\ inflight' = [inflight EXCEPT ![t].pc = "returned"]
    /\ UNCHANGED <<mixerUnit_, mixerInputChannels_, mixerOutputChannels_,
                   renderCallbackInputABL_, units, crashed, last, ready, ablReads, cf>>

\* the operations on the wrapper: reset(x) hands it one reference to x (or
\* nullptr), release() hands the held reference to the caller
Reset ==
    /\ cf.alive
    /\ \E type \in CFObjects \cup {nullptr} :
         /\ type # nullptr => cf.given[1] + cf.given[2] < MaxRefs
         /\ cf' = [AutoCFType_reset(cf, type) EXCEPT
                     !.op = "reset", !.arg = type,
                     !.given = IF type = nullptr THEN @ ELSE [@ EXCEPT ![type] = @ + 1]]
    /\ UNCHANGED <<engineVars, inflight, ablReads>>

Release ==
    /\ cf.alive
    /\ cf' = [AutoCFType_release(cf) EXCEPT
                !.op = "release", !.arg = nullptr,
                !.handed = IF cf.type_ = nullptr THEN @ ELSE [@ EXCEPT ![cf.type_] = @ + 1]]
    /\ UNCHANGED <<engineVars, inflight, ablReads>>

Get ==
    /\ cf.alive
    /\ cf' = [AutoCFType_get(cf) EXCEPT !.op = "get", !.arg = nullptr]
    /\ UNCHANGED <<engineVars, inflight, ablReads>>

Destroy ==
    /\ cf.alive
    /\ cf' = [AutoCFType_destructor(cf) EXCEPT !.op = "destructor", !.arg = nullptr,
                                               !.alive = FALSE]
    /\ UNCHANGED <<engineVars, inflight, ablReads>>

\* ---------------------------------------------------------- specifications
\* Spec: every sequence of the four operations on one engine, from construction.
\* Stream formats have MaxChannels channels; initialize fails at instance
\* creation, at the first configuration step or at the global gain;
\* buffer lists have at most one buffer, of one shape; setCrossoverVolume names
\* the first crosspoint past the configured channels (SpecGain has the others).
OneShape == {<<2, 8>>}
OneFault == {"kAudioUnitErr_CannotDoInCurrentContext"}

Next ==
    \/ Initialize({MaxChannels}, Faulty({1, 2, 9}, OneFault))
    \/ Uninitialize(Faulty({1, 2}, OneFault))
    \/ SetCrossoverVolume({MaxChannels}, {MaxChannels}, {50}, Faulty({1}, OneFault))
    \/ Mix(BufferLists(1, OneShape, InData(0)), BufferLists(1, OneShape, OutData(0)),
           Faulty({1}, OneFault))

Spec == Init /\ [][Next]_vars

\* SpecInit: the life of one engine that acquires at most one instance: initialize
\* with every format pair, failing at any of its calls, and teardown at any time.
NextInit ==
    \/ mixerUnit_ = Indeterminate
       /\ Initialize(0..MaxChannels, Faulty(1..InitCalls, FaultCodes))
    \/ Uninitialize(Faulty({1, 2}, FaultCodes))

SpecInit == Init /\ [][NextInit]_vars

\* SpecRender: a Ready engine mixing.  Every buffer list pair of up to MaxBuffers
\* buffers is mixed from the Ready state and from each state reached from it by
\* successful mixes of empty lists.
InitRender ==
    /\ Init
    /\ LET env == Nominal(badComponentInstance)
           r == initialize(Machine, MaxChannels, MaxChannels, env)
       IN /\ Becomes(r)
          /\ last' = [Ran("initialize", r) EXCEPT !.inputASBD = MaxChannels,
                                                  !.outputASBD = MaxChannels]
          /\ ready' = TRUE
          /\ mixed' = mixed

NextRender ==
    /\ last.op = "initialize"
         \/ (last.op = "mix" /\ last.status = noErr /\
             last.inputABL = <<>> /\ last.outputABL = <<>>)
    /\ Mix(BufferLists(MaxBuffers, Shapes, InData(0)), BufferLists(MaxBuffers, Shapes, OutData(0)),
           Faulty({1}, FaultCodes) \cup Late(FaultCodes))

SpecRender == Init /\ [][InitRender \/ NextRender]_vars

\* SpecGain: one initialize, of 1 or MaxChannels channels a side, and then every
\* sequence of setCrossoverVolume on the Ready engine.  The channel indexes are
\* ints: in range (0, 1), one past the range, negative, and an output index
\* past 16 bits; a call may fail for a reason of the mixer's own.
InputIndexes == {-1, 0, 1, MaxChannels}
OutputIndexes == {-1, 0, 1, MaxChannels, 65537}
Volumes == {25, 50}

NextGain ==
    \/ mixerUnit_ = Indeterminate /\ Initialize({1, MaxChannels}, {})
    \/ ready /\ SetCrossoverVolume(InputIndexes, OutputIndexes, Volumes, Faulty({1}, OneFault))

SpecGain == Init /\ [][NextGain]_vars

\* SpecCall: a Ready engine and one caller that calls mix again and again, one
\* call at a time as the spec requires, with two input lists of one buffer;
\* the render step may fail for a reason of the mixer's own.
ListA == BufferList(<< <<2, 8>> >>, 1, InData(0))
ListB == BufferList(<< <<2, 8>> >>, 1, InData(10))
ListOut == BufferList(<< <<2, 8>> >>, 1, OutData(0))

MixSteps(t) ==
    \/ MixEnter(t, {ListA, ListB}, {ListOut})
    \/ MixStore(t)
    \/ MixRender(t, Faulty({1}, OneFault))
    \/ MixReadClock(t)
    \/ MixWriteClock(t)

NextCall == InitRender \/ MixSteps(1)

SpecCall == Init /\ [][NextCall]_vars

\* SpecConc: the same engine with two callers whose mix calls overlap freely.
NextConc == InitRender \/ \E t \in Callers : MixSteps(t)

SpecConc == Init /\ [][NextConc]_vars

\* SpecCF: every sequence of reset, release and get on one AutoCFType that is
\* given at most MaxRefs references, ended by its destruction.
NextCF == Reset \/ Release \/ Get \/ Destroy

SpecCF == Init /\ [][NextCF]_vars

\* ------------------------------------------------------------------ claims
RECURSIVE SumSeq(_)
SumSeq(q) == IF q = <<>> THEN 0 ELSE q[1] + SumSeq(Tail(q))

\* no call of the operation failed for a reason of its own
NoFault(calls) == \A k \in 1..Len(calls) : ~calls[k].injected

\* every call but AudioComponentInstanceNew is handed mixerUnit_
PassesHandle(c) == c.fn # "AudioComponentInstanceNew"

SameShape(a, b) ==
    a.mNumberChannels = b.mNumberChannels /\ a.mDataByteSize = b.mDataByteSize

Matching(in, out) ==
    Len(in) = Len(out) /\ \A i \in 1..Len(in) : SameShape(in[i], out[i])

\* the first index at which two lists of equal length differ in shape (0: none)
FirstMismatch(in, out) ==
    LET bad == {i \in 1..Len(in) : ~SameShape(in[i], out[i])} IN
    IF bad = {} THEN 0 ELSE Min(bad)

NoneHeld == \A id \in InstIds : ~Live(units, id)

\* C1: the sample clock is 0 on construction, equals in every reachable state the
\* sum of the frame counts of the successful mix calls made so far, and no step
\* decreases it.
C1_SampleClockIsSumOfMixedFrames ==
    /\ sampleTime_ = 0
    /\ [](sampleTime_ = SumSeq(mixed))
    /\ [][sampleTime_' >= sampleTime_]_vars

C1_Witness ==
    /\ Len(mixed) >= 2
    /\ mixed[1] # mixed[2]
    /\ sampleTime_ = mixed[1] + mixed[2]
    /\ last.op = "mix" /\ last.status = noErr

\* C2: in Ready, with a mixing unit that forwards the pull and fails for no
\* reason of its own, mix(N, in, out) with equal buffer counts and pairwise equal
\* channel counts and byte sizes returns noErr, every out buffer's mData is the
\* mData of the in buffer at the same index, the supply routine read exactly
\* `in` and left it as it was, and the clock advanced by N.
C2_MatchingMixAliasesAndAdvances ==
    (/\ last.op = "mix"
     /\ last.readyBefore
     /\ Matching(last.inputABL, last.outputABL)
     /\ NoFault(last.calls))
    => /\ last.status = noErr
       /\ Len(last.ioData) = Len(last.outputABL)
       /\ \A i \in 1..Len(last.ioData) :
            /\ last.ioData[i].mData = last.inputABL[i].mData
            /\ SameShape(last.ioData[i], last.outputABL[i])
       /\ last.pulled = <<last.inputABL>>
       /\ renderCallbackInputABL_.abl = last.inputABL
       /\ sampleTime_ = last.clockBefore + last.frames

C2_Witness ==
    /\ last.op = "mix"
    /\ last.readyBefore
    /\ Len(last.inputABL) = MaxBuffers
    /\ Matching(last.inputABL, last.outputABL)
    /\ last.inputABL[1].mNumberChannels # last.inputABL[2].mNumberChannels
    /\ last.status = noErr
    /\ last.ioData[2].mData = InData(2)
    /\ last.clockBefore > 0

\* C3: in Ready, mix with lists of different buffer counts aliases no output
\* buffer, leaves the clock unchanged and returns kAudio_ParamError (the status
\* of the supply routine; a render step that fails before it pulls returns its
\* own status instead).
C3_CountMismatchIsParamError ==
    (/\ last.op = "mix"
     /\ last.readyBefore
     /\ Len(last.inputABL) # Len(last.outputABL))
    => /\ last.ioData = last.outputABL
       /\ sampleTime_ = last.clockBefore
       /\ last.status # noErr
       /\ NoFault(last.calls) => last.status = kAudio_ParamError

C3_Witness ==
    /\ last.op = "mix"
    /\ last.readyBefore
    /\ Len(last.inputABL) = 1
    /\ Len(last.outputABL) = 2
    /\ SameShape(last.inputABL[1], last.outputABL[1])
    /\ last.status = kAudio_ParamError
    /\ last.clockBefore > 0

\* C4: whenever AudioUnitRender returns a status other than noErr (its own or the
\* supply routine's), mix returns that status and the clock is what it was.
C4_RenderFailureIsReturnedVerbatim ==
    (last.op = "mix" /\ last.calls[1].status # noErr)
    => /\ last.status = last.calls[1].status
       /\ sampleTime_ = last.clockBefore

C4_Witness ==
    /\ last.op = "mix"
    /\ last.calls[1].injected
    /\ last.pulled # <<>>
    /\ last.status \in FaultCodes
    /\ last.clockBefore > 0

\* C5: when the counts match and i is the first index whose pair differs in
\* channel count or byte size, a supply routine that runs fails with
\* kAudio_ParamError: the out buffers before i are aliased onto the in buffers,
\* those from i on keep their data pointers, and the clock does not advance.
C5_ShapeMismatchStopsAtFirstBadBuffer ==
    (/\ last.op = "mix"
     /\ last.readyBefore
     /\ Len(last.inputABL) = Len(last.outputABL)
     /\ FirstMismatch(last.inputABL, last.outputABL) # 0
     /\ last.pulled # <<>>)
    => LET i == FirstMismatch(last.inputABL, last.outputABL) IN
       /\ last.status = kAudio_ParamError
       /\ \A k \in 1..Len(last.ioData) :
            /\ k < i => last.ioData[k].mData = last.inputABL[k].mData
            /\ k >= i => last.ioData[k].mData = last.outputABL[k].mData
       /\ sampleTime_ = last.clockBefore

C5_Witness ==
    /\ last.op = "mix"
    /\ last.readyBefore
    /\ Len(last.inputABL) = Len(last.outputABL)
    /\ FirstMismatch(last.inputABL, last.outputABL) = 2
    /\ last.ioData[1].mData = InData(1)
    /\ last.ioData[2].mData = OutData(2)
    /\ last.status = kAudio_ParamError

\* C6: with a mixer component installed and no call failing for a reason of its
\* own, initialize succeeds for every format pair of non-zero channel counts, and
\* an uninitialize that follows it immediately succeeds too: it made one
\* AudioUnitUninitialize and then one AudioComponentInstanceDispose call on the
\* instance initialize created, and no instance is held afterwards.
C6_InitializeThenUninitializeHoldsNothing ==
    /\ (/\ last.op = "initialize"
        /\ last.inputASBD >= 1 /\ last.outputASBD >= 1
        /\ last.found
        /\ NoFault(last.calls))
       => last.status = noErr /\ Live(units, mixerUnit_)
    /\ (/\ last.op = "uninitialize"
        /\ last.prevOp = "initialize" /\ last.prevStatus = noErr
        /\ NoFault(last.calls))
       => /\ last.status = noErr
          /\ Len(last.calls) = 2
          /\ last.calls[1].fn = "AudioUnitUninitialize" /\ last.calls[1].live
          /\ last.calls[2].fn = "AudioComponentInstanceDispose" /\ last.calls[2].live
          /\ last.calls[1].unit = mixerUnit_ /\ last.calls[2].unit = mixerUnit_
          /\ units[mixerUnit_].state = "disposed"
          /\ NoneHeld

C6_Witness ==
    /\ last.op = "uninitialize"
    /\ last.prevOp = "initialize" /\ last.prevStatus = noErr
    /\ last.status = noErr
    /\ mixerInputChannels_ = 1 /\ mixerOutputChannels_ = MaxChannels
    /\ NoneHeld

\* C7: when AudioComponentFindNext finds no component, initialize returns
\* kAudioUnitErr_ExtensionNotFound having made no further call: no instance
\* exists and neither the handle nor the recorded channel counts were written.
C7_DiscoveryFailureStopsInitialize ==
    (last.op = "initialize" /\ ~last.found)
    => /\ last.status = kAudioUnitErr_ExtensionNotFound
       /\ last.calls = <<>>
       /\ \A id \in InstIds : units[id].state = "free"
       /\ mixerUnit_ = Indeterminate
       /\ mixerInputChannels_ = Indeterminate
       /\ mixerOutputChannels_ = Indeterminate

C7_Witness ==
    /\ last.op = "initialize"
    /\ ~last.found
    /\ last.inputASBD = MaxChannels /\ last.outputASBD = 1
    /\ last.status = kAudioUnitErr_ExtensionNotFound

\* C8: in initialize, a call that returns a status other than noErr is the last
\* call made, and its status is what initialize returns.
C8_FailedStepAbortsInitialize ==
    last.op = "initialize"
    => \A k \in 1..Len(last.calls) :
         last.calls[k].status # noErr
         => k = Len(last.calls) /\ last.status = last.calls[k].status

C8_Witness ==
    /\ last.op = "initialize"
    /\ last.inputASBD = MaxChannels /\ last.outputASBD = MaxChannels
    /\ Len(last.calls) = 9 + MaxChannels
    /\ last.calls[9 + MaxChannels].scope = "kAudioUnitScope_Input"
    /\ last.calls[9 + MaxChannels].elem = MaxChannels - 1
    /\ last.calls[9 + MaxChannels].injected
    /\ last.status \in FaultCodes

\* C9: an initialize that failed after AudioComponentInstanceNew succeeded leaves
\* the instance allocated, and an uninitialize that follows it (none of its calls
\* failing for a reason of its own) succeeds and leaves no instance held.
C9_FailedInitializeLeavesInstanceForTeardown ==
    /\ (last.op = "initialize" /\ last.status # noErr /\ Len(last.calls) >= 2)
       => /\ last.calls[1].fn = "AudioComponentInstanceNew"
          /\ last.calls[1].status = noErr
          /\ Live(units, mixerUnit_)
          /\ \A k \in 1..Len(last.calls) : last.calls[k].fn # "AudioComponentInstanceDispose"
    /\ (/\ last.op = "uninitialize"
        /\ last.prevOp = "initialize" /\ last.prevStatus # noErr
        /\ last.calls[1].live
        /\ NoFault(last.calls))
       => /\ last.status = noErr
          /\ units[mixerUnit_].state = "disposed"
          /\ NoneHeld

C9_Witness ==
    /\ last.op = "uninitialize"
    /\ last.prevOp = "initialize" /\ last.prevStatus \in FaultCodes
    /\ last.calls[1].live
    /\ last.status = noErr
    /\ units[mixerUnit_].state = "disposed"

\* C10 as claimed: over every sequence of calls, uninitialize, setCrossoverVolume
\* and mix hand mixerUnit_ to AudioToolbox only while the engine is Ready.
C10_HandleNeverUsedOutsideReady ==
    last.op \in {"uninitialize", "setCrossoverVolume", "mix"}
    => \A k \in 1..Len(last.calls) : PassesHandle(last.calls[k]) => last.readyBefore

\* C10 as amended: inside initialize, and in uninitialize, setCrossoverVolume and
\* mix called while the engine is Ready, every handle handed to AudioToolbox
\* names a live instance.
C10_HandleLiveWhenCalledInReady ==
    (last.op = "initialize" \/ last.readyBefore)
    => \A k \in 1..Len(last.calls) :
         PassesHandle(last.calls[k])
         => last.calls[k].live /\ last.calls[k].unit \in InstIds

C10_Witness ==
    /\ last.op = "uninitialize"
    /\ last.readyBefore
    /\ Len(last.calls) = 2
    /\ last.calls[2].live
    /\ sampleTime_ > 0

\* C15: over every sequence of calls, a step changes the sample clock only when
\* it is a mix that returned noErr, and then by that mix's frame count;
\* initialize, uninitialize, setCrossoverVolume and a failed mix leave the
\* clock as it was, so a teardown followed by a new initialize does not reset it.
C15_OnlySuccessfulMixMovesClock ==
    [][sampleTime_' # sampleTime_
       => /\ last'.op = "mix"
          /\ last'.status = noErr
          /\ sampleTime_' = sampleTime_ + last'.frames]_vars

\* a second instance was initialized and the clock still holds the frames
\* mixed before the first one was torn down
C15_Witness ==
    /\ last.op = "initialize"
    /\ last.status = noErr
    /\ units[1].state = "disposed"
    /\ Live(units, mixerUnit_)
    /\ sampleTime_ > 0
    /\ sampleTime_ = last.clockBefore

\* what a call handed to AudioToolbox, without its outcome
Sig(c) == <<c.fn, c.what, c.scope, c.elem, c.value>>

Sigs(calls) == [k \in 1..Len(calls) |-> Sig(calls[k])]

UnityGains(scope, i, n) ==
    [k \in 1..(n - i) |->
        <<"AudioUnitSetParameter", "kMatrixMixerParam_Volume", scope, i + k - 1, 100>>]

\* the configuration calls of initialize, in the order the spec lists them
InitializeSequence(inputASBD, outputASBD) ==
    << <<"AudioComponentInstanceNew", "", "", 0, 0>>,
       <<"AudioUnitSetProperty", "kAudioUnitProperty_BusCount", "kAudioUnitScope_Input", 0, 1>>,
       <<"AudioUnitSetProperty", "kAudioUnitProperty_BusCount", "kAudioUnitScope_Output", 0, 1>>,
       <<"AudioUnitSetProperty", "kAudioUnitProperty_StreamFormat", "kAudioUnitScope_Input",
         0, inputASBD>>,
       <<"AudioUnitSetProperty", "kAudioUnitProperty_StreamFormat", "kAudioUnitScope_Output",
         0, outputASBD>>,
       <<"AudioUnitSetProperty", "kAudioUnitProperty_ShouldAllocateBuffer",
         "kAudioUnitScope_Input", 0, 0>>,
       <<"AudioUnitSetProperty", "kAudioUnitProperty_SetRenderCallback",
         "kAudioUnitScope_Global", 0, 1>>,
       <<"AudioUnitInitialize", "", "", 0, 0>>,
       <<"AudioUnitSetParameter", "kMatrixMixerParam_Volume", "kAudioUnitScope_Global",
         AllElements, 100>> >>
    \o UnityGains("kAudioUnitScope_Input", 0, inputASBD)
    \o UnityGains("kAudioUnitScope_Output", 0, outputASBD)

IsPrefix(a, b) == Len(a) <= Len(b) /\ \A k \in 1..Len(a) : a[k] = b[k]

\* C17: every initialize that returns noErr has made exactly the calls of
\* InitializeSequence, each once and in that order (instance creation, the two
\* bus counts, the two stream formats, input buffer allocation off, the render
\* callback, activation, the global gain, the input gains 0..in-1, the output
\* gains 0..out-1); an initialize that stops early has made a prefix of them, so
\* activation never precedes a format or the callback and no gain precedes
\* activation.
C17_InitializeCallsInOrder ==
    last.op = "initialize"
    => LET made == Sigs(last.calls)
           expected == InitializeSequence(last.inputASBD, last.outputASBD)
       IN /\ IsPrefix(made, expected)
          /\ last.status = noErr => made = expected
          /\ \A k \in 1..Len(last.calls) :
               /\ last.calls[k].fn = "AudioUnitInitialize" => k = 8
               /\ last.calls[k].fn = "AudioUnitSetParameter" => k > 8

C17_Witness ==
    /\ last.op = "initialize"
    /\ last.status = noErr
    /\ last.inputASBD = MaxChannels
    /\ last.outputASBD = 1
    /\ Len(last.calls) = 10 + MaxChannels
    /\ last.calls[8].fn = "AudioUnitInitialize"

\* C18: every mix hands AudioUnitRender the value the sample clock had when the
\* mix was entered, which is the sum of the frame counts of the successful
\* mixes before it; a mix that directly follows a failed mix hands over the
\* same timestamp as the failed one.
C18_TimestampIsClockAtEntry ==
    /\ [](last.op = "mix"
          => /\ Len(last.calls) >= 1
             /\ last.calls[1].fn = "AudioUnitRender"
             /\ last.calls[1].ts = last.clockBefore
             /\ last.clockBefore
                  = SumSeq(mixed) - (IF last.status = noErr THEN last.frames ELSE 0))
    /\ [][(last.op = "mix" /\ last.status # noErr /\ last'.op = "mix")
          => last'.calls[1].ts = last.calls[1].ts]_vars

C18_Witness ==
    /\ last.op = "mix"
    /\ last.status \in FaultCodes
    /\ Len(mixed) >= 1
    /\ last.calls[1].ts = SumSeq(mixed)
    /\ last.calls[1].ts > 0

\* C19: uninitialize deactivates first and disposes only when deactivation
\* returned noErr.  When deactivation fails its status is returned, no disposal
\* is attempted and a live instance stays allocated; when it succeeds the same
\* handle is disposed next and the disposal's status decides the result.  In
\* neither case is mixerUnit_ changed.
C19_DisposeOnlyAfterDeactivation ==
    last.op = "uninitialize"
    => /\ Len(last.calls) >= 1
       /\ last.calls[1].fn = "AudioUnitUninitialize"
       /\ mixerUnit_ = last.calls[1].unit
       /\ last.calls[1].status # noErr
          => /\ Len(last.calls) = 1
             /\ last.status = last.calls[1].status
             /\ last.calls[1].live => Live(units, mixerUnit_)
       /\ last.calls[1].status = noErr
          => /\ Len(last.calls) = 2
             /\ last.calls[2].fn = "AudioComponentInstanceDispose"
             /\ last.calls[2].unit = last.calls[1].unit
             /\ last.status = last.calls[2].status
             /\ (last.calls[1].live /\ last.status = noErr)
                => units[mixerUnit_].state = "disposed"

C19_Witness ==
    /\ last.op = "uninitialize"
    /\ last.calls[1].live
    /\ last.calls[1].status \in FaultCodes
    /\ last.status = last.calls[1].status
    /\ Len(last.calls) = 1
    /\ Live(units, mixerUnit_)
    /\ mixerUnit_ = last.calls[1].unit

\* the volumes the engine's instance holds
Mixer == units[mixerUnit_]

\* (i, j) names a crosspoint of the configured channels
InRange(i, j) ==
    /\ 0 <= i /\ i < mixerInputChannels_
    /\ 0 <= j /\ j < mixerOutputChannels_

Crosspoints == {<<i, j>> \in (0..(MaxChannels - 1)) \X (0..(MaxChannels - 1)) : InRange(i, j)}

\* C11: on a Ready engine every setCrossoverVolume(i, j, g) with i and j inside
\* the configured channel counts, when the mixer does not fail for a reason of
\* its own, returns noErr, hands the mixer element (i << 16) | j = 65536 i + j,
\* leaves g as the volume of crosspoint (i, j) and leaves every other
\* crosspoint, the master volume and the channel volumes as they were; so the
\* volume of a crosspoint is the g of the last call that named it.
C11_InRangeCallSetsItsCrosspointOnly ==
    [][(/\ last'.op = "setCrossoverVolume"
        /\ InRange(last'.inputChannelIndex, last'.outputChannelIndex)
        /\ NoFault(last'.calls))
       => LET i == last'.inputChannelIndex
              j == last'.outputChannelIndex
          IN /\ last'.status = noErr
             /\ Len(last'.calls) = 1
             /\ last'.calls[1].elem = 65536 * i + j
             /\ Mixer'.cross[i + 1][j + 1] = Gain(last'.volume)
             /\ \A c \in Crosspoints :
                  c # <<i, j>> => Mixer'.cross[c[1] + 1][c[2] + 1] = Mixer.cross[c[1] + 1][c[2] + 1]
             /\ Mixer'.global = Mixer.global
             /\ Mixer'.input = Mixer.input
             /\ Mixer'.output = Mixer.output]_vars

\* crosspoint (0, 1) was set last, after (0, 0) and (1, 0) got another volume
C11_Witness ==
    /\ last.op = "setCrossoverVolume"
    /\ last.status = noErr
    /\ last.inputChannelIndex = 0 /\ last.outputChannelIndex = 1 /\ last.volume = 25
    /\ mixerInputChannels_ = MaxChannels /\ mixerOutputChannels_ = MaxChannels
    /\ Mixer.cross[1][2] = Gain(25)
    /\ Mixer.cross[1][1] = Gain(50)
    /\ Mixer.cross[2][1] = Gain(50)
    /\ Mixer.cross[2][2] = NoGain

\* C12 as claimed: on a Ready engine every setCrossoverVolume whose input or
\* output channel index lies outside the configured channels (negative, past
\* the channel count, past 16 bits) fails, with the mixer's invalid-element
\* status unless the mixer failed for a reason of its own, and changes no
\* crosspoint volume.
C12_OutOfRangeCallFailsAndChangesNothing ==
    [][(/\ last'.op = "setCrossoverVolume"
        /\ ~InRange(last'.inputChannelIndex, last'.outputChannelIndex))
       => /\ last'.status # noErr
          /\ NoFault(last'.calls) => last'.status = kAudioUnitErr_InvalidElement
          /\ Mixer'.cross = Mixer.cross]_vars

\* every volume in seq has been set to 1.0
AllUnity(seq) == \A k \in 1..Len(seq) : seq[k] = Gain(100)

Holds(o) == cf.alive /\ cf.type_ = o

Bump(counts, o) == IF o = nullptr THEN counts ELSE [counts EXCEPT ![o] = @ + 1]

\* C16: over every sequence of reset, release and get ended by destruction, the
\* wrapper holds nothing or one reference, and every reference it was given is
\* accounted for exactly once: it is the one held, or it was released once by
\* the wrapper, or it was handed out by release() and never released by the
\* wrapper.  reset releases the reference held before (if any) once and then
\* holds its argument; release() returns the held reference, releases nothing and
\* leaves the wrapper holding nothing; get() returns the held reference and
\* changes neither it nor a release count; destruction releases the held
\* reference (if any) once.
C16_WrapperReleasesEachHeldReferenceOnce ==
    /\ [](/\ cf.type_ \in CFObjects \cup {nullptr}
          /\ \A o \in CFObjects :
               cf.given[o] = cf.released[o] + cf.handed[o] + (IF Holds(o) THEN 1 ELSE 0))
    /\ [][/\ cf'.op = "reset"
             => /\ cf'.released = Bump(cf.released, cf.type_)
                /\ cf'.type_ = cf'.arg
          /\ cf'.op = "release"
             => /\ cf'.released = cf.released
                /\ cf'.result = cf.type_
                /\ cf'.type_ = nullptr
          /\ cf'.op = "get"
             => /\ cf'.released = cf.released
                /\ cf'.result = cf.type_
                /\ cf'.type_ = cf.type_
          /\ cf'.op = "destructor"
             => cf'.released = Bump(cf.released, cf.type_)]_cf

\* destroyed after it held object 1 twice (once handed out, once released by a
\* reset) and object 2 last
C16_Witness ==
    /\ cf.op = "destructor"
    /\ cf.given = <<2, 1>>
    /\ cf.handed = <<1, 0>>
    /\ cf.released = <<1, 1>>

\* the list the engine's reference names
Stored(abl) == renderCallbackInputABL_ = [set |-> TRUE, abl |-> abl]

\* the callback ran inside caller t's pull and read the list `abl`
PulledOnly(t, abl) == \A k \in 1..Len(inflight[t].pulled) : inflight[t].pulled[k] = abl

\* what C14 says of the time up to the return of a mix, with one caller:
\* when the pull begins the reference names the list of this mix, the callback
\* inside the pull reads that list and no other (once, when the call
\* succeeds), and the reference is read only by the callback inside a pull
ReferenceServesEnclosingMix ==
    /\ [](\A t \in Callers :
            /\ inflight[t].pc = "stored" => Stored(inflight[t].inputABL)
            /\ inflight[t].pc \in {"rendered", "adding", "returned"}
               => /\ PulledOnly(t, inflight[t].inputABL)
                  /\ inflight[t].status = noErr => Len(inflight[t].pulled) = 1)
    /\ [][ablReads' # ablReads
          => \E t \in Callers : inflight[t].pc = "stored" /\ inflight'[t].pc = "rendered"]_vars

\* C14 as claimed: with one mix call at a time, mix writes the reference just
\* before each pull, the callback inside the pull reads exactly the list of the
\* enclosing mix, the reference is not read after the mix returned, and once
\* the mix returned the engine no longer has a usable reference to the list.
C14_ReferenceLivesOnlyInsideMix ==
    /\ ReferenceServesEnclosingMix
    /\ [](\A t \in Callers : inflight[t].pc = "returned" => ~renderCallbackInputABL_.set)

\* C14 as amended: with one mix call at a time, mix writes the reference just
\* before each pull, the callback inside the pull reads exactly the list of the
\* enclosing mix and nothing reads the reference after the mix returned; the
\* reference itself is not cleared: after the return it still names the list
\* of the returned mix, until the next mix overwrites it.
C14_ReferenceReadOnlyInsideMix ==
    /\ ReferenceServesEnclosingMix
    /\ [](\A t \in Callers : inflight[t].pc = "returned" => Stored(inflight[t].inputABL))

\* the second mix of the caller returned: its pull read ListB after the first
\* mix had stored ListA, and the reference still names ListB
C14_Witness ==
    /\ inflight[1].pc = "returned"
    /\ inflight[1].began = 2
    /\ inflight[1].status = noErr
    /\ inflight[1].inputABL = ListB
    /\ inflight[1].pulled = <<ListB>>
    /\ inflight[1].ioData[1].mData = ListB[1].mData
    /\ ablReads = 2
    /\ Stored(ListB)

\* C20: nothing in mix keeps two calls apart.  When mix calls of two callers
\* overlap, the callback inside a pull reads whatever list the reference names
\* at that moment, whichever call stored it, and the clock is written back as
\* the value a call read earlier plus its frames, so the clock never exceeds
\* the sum of the successful frame counts but can fall short of it.  (The
\* state where one call has read the other's list and the clock has lost a
\* call's frames is C20_Witness.)
C20_MixCallsAreNotKeptApart ==
    /\ [][\A t \in Callers :
            /\ (inflight[t].pc = "stored" /\ inflight'[t].pc = "rendered")
               => \A k \in 1..Len(inflight'[t].pulled) :
                    inflight'[t].pulled[k] = renderCallbackInputABL_.abl
            /\ (inflight[t].pc = "adding" /\ inflight'[t].pc = "returned")
               => sampleTime_' = inflight[t].clock + inflight[t].inNumberFrames]_vars
    /\ [](sampleTime_ <= SumSeq(mixed))

\* both calls returned noErr; caller 1's pull read the list caller 2 stored, its
\* output buffer is aliased onto caller 2's input, and the clock is short of
\* the two frame counts
C20_Witness ==
    /\ inflight[1].pc = "returned" /\ inflight[1].status = noErr /\ inflight[1].began = 1
    /\ inflight[2].pc = "returned" /\ inflight[2].status = noErr /\ inflight[2].began = 1
    /\ inflight[1].inputABL = ListA
    /\ inflight[2].inputABL = ListB
    /\ inflight[1].pulled = <<ListB>>
    /\ inflight[1].ioData[1].mData = ListB[1].mData
    /\ Len(mixed) = 2
    /\ sampleTime_ < inflight[1].inNumberFrames + inflight[2].inNumberFrames

====
